---- MODULE Spec2Model ----
(***************************************************************************)
(* Model of two presentation-layer components of pyfa:                     *)
(*   - graphs/gui/frame.py : GraphFrame (event handlers, OnClose, draw)    *)
(*   - gui/implantView.py  : ImplantView (fitChanged, add, remove, toggle, *)
(*                           context menu)                                 *)
(* Three specifications share the module: Spec (the graph frame's event    *)
(* wiring), SpecDraw (GraphFrame.draw, one loop iteration per step) and    *)
(* SpecImplant (the implant list view).                                    *)
(***************************************************************************)
EXTENDS Integers, Sequences, FiniteSets, TLC

VARIABLES
    \* ---- GraphFrame wiring ----
    graphFrame_enabled, \* module global set by the matplotlib import
    frame,              \* instance number of the open GraphFrame, 0 when none
    nextId,             \* instance number the next GraphFrame() will get
    sel,                \* graphSelection.GetSelection() of the open frame
    bound,              \* mainFrame's dynamic event table: [ev, inst, h]
    trace,              \* calls made while the last event was processed
    last,               \* the last event processed

    \* ---- GraphFrame.draw ----
    showY0, showLegend, hasTargets, sources, targets,  \* ctrlPanel / view inputs
    pc, idx, min_y, max_y, lineData, plots, lastPlot, seen, ylim, legend,

    \* ---- ImplantView ----
    fitImplants,        \* fit.implants of every fit (a list object per fit)
    useOther,           \* fit.appliedImplants is another list than fit.implants
    otherImplants,      \* that other list object
    activeFit,          \* mainFrame.getActiveFit()
    posted,             \* FitChanged events posted and not yet handled
    lastFitId, original, implants,   \* fields of the view
    rows, selected,     \* what the list control displays, selected row
    menuPending,        \* wx.CallAfter(self.spawnMenu) not yet run
    op                  \* what the last handler did

frameVars   == <<graphFrame_enabled, frame, nextId, sel, bound, trace, last>>
drawVars    == <<showY0, showLegend, hasTargets, sources, targets, pc, idx, min_y, max_y,
                 lineData, plots, lastPlot, seen, ylim, legend>>
implantVars == <<fitImplants, useOther, otherImplants, activeFit, posted,
                 lastFitId, original, implants, rows, selected, menuPending, op>>
vars        == <<frameVars, drawVars, implantVars>>

None == 0      \* Python None where an ID is expected

\* ---------------------------------------------------------------------------
\* Bounds
\* ---------------------------------------------------------------------------
MaxFrames  == 2     \* GraphFrame instances created in one behaviour
NumFits    == 2     \* fit IDs 1..NumFits
MaxFitIDs  == 2     \* length of event.fitIDs
NumViews   == 2     \* entries of FitGraph.views
NumProfiles == 1    \* target profile IDs

FitIDs     == 1..NumFits
ProfileIDs == 1..NumProfiles

RECURSIVE SeqsUpTo(_, _)
SeqsUpTo(S, n) ==
    IF n = 0 THEN {<<>>}
    ELSE LET shorter == SeqsUpTo(S, n - 1)
         IN  shorter \cup {Append(s, x) : s \in shorter, x \in S}

\* ===========================================================================
\* GraphFrame: event wiring
\* ===========================================================================
Call(i, name) ==
    [inst |-> i, call |-> name, reason |-> "", extra |-> None, view |-> -1]

\* GraphFrame.getView / GraphFrame.clearCache
clearCache(i, view, reason, extraData) ==
    [inst |-> i, call |-> "clearCache", reason |-> reason,
     extra |-> extraData, view |-> view]

RECURSIVE ClearEach(_, _, _, _)
ClearEach(i, view, reason, ids) ==
    IF ids = <<>> THEN <<>>
    ELSE <<clearCache(i, view, reason, Head(ids))>>
         \o ClearEach(i, view, reason, Tail(ids))

Event(fitIDs, fitID, profileID, axe, cols) ==
    [fitIDs |-> fitIDs, fitID |-> fitID, profileID |-> profileID,
     refreshAxeLabels |-> axe, refreshColumns |-> cols]

NoPayload == Event(<<>>, None, None, FALSE, FALSE)

OnFitRenamedDrawFirst(i, view, event) ==
    <<Call(i, "Skip"), Call(i, "draw"), Call(i, "ctrlPanel.OnFitRenamed")>>

OnFitRenamed(i, view, event) ==
    <<Call(i, "Skip"), Call(i, "ctrlPanel.OnFitRenamed"), Call(i, "draw")>>

OnFitChanged(i, view, event) ==
    <<Call(i, "Skip")>>
    \o ClearEach(i, view, "fitChanged", event.fitIDs)
    \o <<Call(i, "ctrlPanel.OnFitChanged"), Call(i, "draw")>>

OnFitRemoved(i, view, event) ==
    <<Call(i, "Skip"), clearCache(i, view, "fitRemoved", event.fitID),
      Call(i, "ctrlPanel.OnFitRemoved"), Call(i, "draw")>>

OnProfileRenamed(i, view, event) ==
    <<Call(i, "Skip"), Call(i, "ctrlPanel.OnProfileRenamed"), Call(i, "draw")>>

OnProfileChanged(i, view, event) ==
    <<Call(i, "Skip"), clearCache(i, view, "profileChanged", event.profileID),
      Call(i, "ctrlPanel.OnProfileChanged"), Call(i, "draw")>>

OnProfileRemoved(i, view, event) ==
    <<Call(i, "Skip"), clearCache(i, view, "profileRemoved", event.profileID),
      Call(i, "ctrlPanel.OnProfileRemoved"), Call(i, "draw")>>

OnResistModeChangedWrongReason(i, view, event) ==
    <<Call(i, "Skip")>>
    \o ClearEach(i, view, "fitChanged", event.fitIDs)
    \o <<Call(i, "ctrlPanel.OnResistModeChanged"), Call(i, "draw")>>

OnResistModeChanged(i, view, event) ==
    <<Call(i, "Skip")>>
    \o ClearEach(i, view, "resistModeChanged", event.fitIDs)
    \o <<Call(i, "ctrlPanel.OnResistModeChanged"), Call(i, "draw")>>

OnGraphOptionChanged(i, view, event) ==
    <<Call(i, "Skip"), Call(i, "ctrlPanel.Freeze")>>
    \o (IF event.refreshAxeLabels
        THEN <<Call(i, "ctrlPanel.refreshAxeLabels")>> ELSE <<>>)
    \o (IF event.refreshColumns
        THEN <<Call(i, "ctrlPanel.refreshColumns")>> ELSE <<>>)
    \o <<Call(i, "ctrlPanel.Thaw"),
         clearCache(i, view, "optionChanged", None), Call(i, "draw")>>

OnGraphSwitched(i, view, event) ==
    <<Call(i, "GraphSettings.set"),
      clearCache(i, view, "graphSwitched", None),
      Call(i, "ctrlPanel.updateControls"), Call(i, "draw"), Call(i, "Skip")>>

\* The (event, handler) pairs GraphFrame.__init__ binds on the main frame
Bindings(i) ==
    { [ev |-> "FIT_RENAMED",            inst |-> i, h |-> "OnFitRenamed"],
      [ev |-> "FIT_CHANGED",            inst |-> i, h |-> "OnFitChanged"],
      [ev |-> "FIT_REMOVED",            inst |-> i, h |-> "OnFitRemoved"],
      [ev |-> "TARGET_PROFILE_RENAMED", inst |-> i, h |-> "OnProfileRenamed"],
      [ev |-> "TARGET_PROFILE_CHANGED", inst |-> i, h |-> "OnProfileChanged"],
      [ev |-> "TARGET_PROFILE_REMOVED", inst |-> i, h |-> "OnProfileRemoved"],
      [ev |-> "RESIST_MODE_CHANGED",    inst |-> i, h |-> "OnResistModeChanged"],
      [ev |-> "GRAPH_OPTION_CHANGED",   inst |-> i, h |-> "OnGraphOptionChanged"] }

UnbindingsSwapped(i) ==
    (Bindings(i) \ { [ev |-> "TARGET_PROFILE_RENAMED", inst |-> i,
                      h |-> "OnProfileRenamed"] })
    \cup { [ev |-> "TARGET_PROFILE_RENAMED", inst |-> i,
            h |-> "OnProfileChanged"] }

\* The (event, handler) pairs GraphFrame.OnClose unbinds from the main frame
Unbindings(i) ==
    { [ev |-> "FIT_RENAMED",            inst |-> i, h |-> "OnFitRenamed"],
      [ev |-> "FIT_CHANGED",            inst |-> i, h |-> "OnFitChanged"],
      [ev |-> "FIT_REMOVED",            inst |-> i, h |-> "OnFitRemoved"],
      [ev |-> "TARGET_PROFILE_RENAMED", inst |-> i, h |-> "OnProfileRenamed"],
      [ev |-> "TARGET_PROFILE_CHANGED", inst |-> i, h |-> "OnProfileChanged"],
      [ev |-> "TARGET_PROFILE_REMOVED", inst |-> i, h |-> "OnProfileRemoved"],
      [ev |-> "RESIST_MODE_CHANGED",    inst |-> i, h |-> "OnResistModeChanged"],
      [ev |-> "GRAPH_OPTION_CHANGED",   inst |-> i, h |-> "OnGraphOptionChanged"] }

\* Calling the bound method h of frame instance i
HandlerCalls(h, i, view, event) ==
    CASE h = "OnFitRenamed"         -> OnFitRenamed(i, view, event)
      [] h = "OnFitChanged"         -> OnFitChanged(i, view, event)
      [] h = "OnFitRemoved"         -> OnFitRemoved(i, view, event)
      [] h = "OnProfileRenamed"     -> OnProfileRenamed(i, view, event)
      [] h = "OnProfileChanged"     -> OnProfileChanged(i, view, event)
      [] h = "OnProfileRemoved"     -> OnProfileRemoved(i, view, event)
      [] h = "OnResistModeChanged"  -> OnResistModeChanged(i, view, event)
      [] h = "OnGraphOptionChanged" -> OnGraphOptionChanged(i, view, event)

\* mainFrame processes an event: every handler bound for it runs (each one
\* calls event.Skip()), the most recently bound first.
RECURSIVE DispatchCalls(_, _, _)
DispatchCalls(bs, view, event) ==
    IF bs = {} THEN <<>>
    ELSE LET b == CHOOSE x \in bs : \A y \in bs : x.inst >= y.inst
         IN  HandlerCalls(b.h, b.inst, view, event)
             \o DispatchCalls(bs \ {b}, view, event)

Dispatch(ev, event) ==
    /\ trace' = DispatchCalls({b \in bound : b.ev = ev}, sel, event)
    /\ last'  = [ev |-> ev, inst |-> frame, event |-> event]
    /\ UNCHANGED <<graphFrame_enabled, frame, nextId, sel, bound>>
    /\ UNCHANGED <<drawVars, implantVars>>

FrameInit ==
    /\ graphFrame_enabled \in BOOLEAN
    /\ frame = 0
    /\ nextId = 1
    /\ sel = -1
    /\ bound = {}
    /\ trace = <<>>
    /\ last = [ev |-> "none", inst |-> 0, event |-> NoPayload]

\* parked values of the frame variables in the other specifications
FrameIdle ==
    /\ graphFrame_enabled = FALSE
    /\ frame = 0
    /\ nextId = 1
    /\ sel = -1
    /\ bound = {}
    /\ trace = <<>>
    /\ last = [ev |-> "none", inst |-> 0, event |-> NoPayload]

\* GraphFrame.openOne / GraphFrame.__init__
Open ==
    /\ frame = 0
    /\ nextId <= MaxFrames
    /\ graphFrame_enabled
    /\ frame' = nextId
    /\ nextId' = nextId + 1
    /\ sel' = 0
    /\ bound' = bound \cup Bindings(nextId)
    /\ trace' = <<Call(nextId, "ctrlPanel.updateControls"), Call(nextId, "draw")>>
    /\ last' = [ev |-> "open", inst |-> nextId, event |-> NoPayload]
    /\ UNCHANGED graphFrame_enabled
    /\ UNCHANGED <<drawVars, implantVars>>

\* GraphFrame.OnClose; event.Skip() lets the default handler destroy the frame
OnClose ==
    /\ frame # 0
    /\ bound' = bound \ Unbindings(frame)
    /\ trace' = <<Call(frame, "Unbind"), Call(frame, "Skip")>>
    /\ last' = [ev |-> "EVT_CLOSE", inst |-> frame, event |-> NoPayload]
    /\ frame' = 0
    /\ sel' = -1
    /\ UNCHANGED <<graphFrame_enabled, nextId>>
    /\ UNCHANGED <<drawVars, implantVars>>

\* GraphFrame.kbEvent: a bare Escape closes the frame, other keys are skipped
GraphFrame_kbEvent ==
    /\ frame # 0
    /\ \E escape \in BOOLEAN :
         IF escape
         THEN /\ bound' = bound \ Unbindings(frame)
              /\ trace' = <<Call(frame, "Close"), Call(frame, "Unbind"),
                            Call(frame, "Skip")>>
              /\ last' = [ev |-> "EVT_CHAR_HOOK", inst |-> frame, event |-> NoPayload]
              /\ frame' = 0
              /\ sel' = -1
         ELSE /\ trace' = <<Call(frame, "Skip")>>
              /\ last' = [ev |-> "EVT_CHAR_HOOK", inst |-> frame, event |-> NoPayload]
              /\ UNCHANGED <<frame, sel, bound>>
    /\ UNCHANGED <<graphFrame_enabled, nextId>>
    /\ UNCHANGED <<drawVars, implantVars>>

NotifyFitRenamed == \E f \in FitIDs :
    Dispatch("FIT_RENAMED", Event(<<>>, f, None, FALSE, FALSE))

NotifyFitChanged == \E ids \in SeqsUpTo(FitIDs, MaxFitIDs) :
    Dispatch("FIT_CHANGED", Event(ids, None, None, FALSE, FALSE))

NotifyFitRemoved == \E f \in FitIDs :
    Dispatch("FIT_REMOVED", Event(<<>>, f, None, FALSE, FALSE))

NotifyProfileRenamed == \E p \in ProfileIDs :
    Dispatch("TARGET_PROFILE_RENAMED", Event(<<>>, None, p, FALSE, FALSE))

NotifyProfileChanged == \E p \in ProfileIDs :
    Dispatch("TARGET_PROFILE_CHANGED", Event(<<>>, None, p, FALSE, FALSE))

NotifyProfileRemoved == \E p \in ProfileIDs :
    Dispatch("TARGET_PROFILE_REMOVED", Event(<<>>, None, p, FALSE, FALSE))

NotifyResistModeChanged == \E ids \in SeqsUpTo(FitIDs, MaxFitIDs) :
    Dispatch("RESIST_MODE_CHANGED", Event(ids, None, None, FALSE, FALSE))

NotifyGraphOptionChanged == \E axe \in BOOLEAN, cols \in BOOLEAN :
    Dispatch("GRAPH_OPTION_CHANGED", Event(<<>>, None, None, axe, cols))

\* wx.EVT_CHOICE of graphSelection (bound on the frame's own widget): the
\* selection has changed when the handler runs
GraphSwitched ==
    /\ frame # 0
    /\ \E v \in 0..(NumViews - 1) :
         /\ sel' = v
         /\ trace' = OnGraphSwitched(frame, v, NoPayload)
    /\ last' = [ev |-> "EVT_CHOICE", inst |-> frame, event |-> NoPayload]
    /\ UNCHANGED <<graphFrame_enabled, frame, nextId, bound>>
    /\ UNCHANGED <<drawVars, implantVars>>

\* ===========================================================================
\* GraphFrame.draw
\* ===========================================================================
MaxSources == 2     \* len(ctrlPanel.sources)
MaxTargets == 2     \* len(ctrlPanel.targets)

\* y values are held in units of 1/Scale so that "* 0.05", applied twice,
\* stays exact
Scale  == 20 * 20
YVals  == {-2, 0, 3}
Pad(y) == y \div 20                         \* y * 0.05

\* what view.getPlotPoints can return for ys: no point, a single point,
\* several equal points, several different points
YsChoices == {<<>>} \cup {<<v * Scale>> : v \in YVals}
             \cup {<<v * Scale, w * Scale>> : v \in YVals, w \in YVals}

\* keys of the style tables of graphs.style
BASE_COLORS == {"blue"}
LIGHTNESSES == {"normal"}
STYLES      == {"solid"}

ColorIDs     == BASE_COLORS \cup {"badColor"}
LightnessIDs == LIGHTNESSES \cup {"badLightness"}
LineStyleIDs == STYLES \cup {"badStyle"}

Targets == [lightnessID : LightnessIDs, lineStyleID : LineStyleIDs]

NoneY   == <<>>                              \* min_y / max_y is None
Some(y) == <<y>>

Range(s) == {s[k] : k \in DOMAIN s}
MinOf(S) == CHOOSE x \in S : \A y \in S : x <= y
MaxOf(S) == CHOOSE x \in S : \A y \in S : x >= y

\* iterList: itertools.product(sources, targets), or (f, None) per source
IterList ==
    IF hasTargets
    THEN LET T == Len(targets)
         IN  [k \in 1..(Len(sources) * T) |->
                 [src |-> ((k - 1) \div T) + 1, tgt |-> ((k - 1) % T) + 1]]
    ELSE [k \in 1..Len(sources) |-> [src |-> k, tgt |-> None]]

StyleKnownIgnoringLineStyle(p) ==
    /\ sources[p.src] \in BASE_COLORS
    /\ p.tgt # None => targets[p.tgt].lightnessID \in LIGHTNESSES

\* the three lookups of "Get line style data": no KeyError for pair p
StyleKnown(p) ==
    /\ sources[p.src] \in BASE_COLORS
    /\ p.tgt # None => /\ targets[p.tgt].lightnessID \in LIGHTNESSES
                       /\ targets[p.tgt].lineStyleID \in STYLES

ColorOf(p) ==
    <<sources[p.src],
      IF p.tgt = None THEN "asis" ELSE targets[p.tgt].lightnessID>>

LineStyleOf(p) ==
    IF p.tgt = None THEN "solid" ELSE targets[p.tgt].lineStyleID

\* "Figure out min and max Y"
NewMin(cur, ys) ==
    IF ys = <<>> THEN cur
    ELSE IF cur = NoneY THEN Some(MinOf(Range(ys)))
    ELSE Some(MinOf(Range(ys) \cup {cur[1]}))

NewMax(cur, ys) ==
    IF ys = <<>> THEN cur
    ELSE IF cur = NoneY THEN Some(MaxOf(Range(ys)))
    ELSE Some(MaxOf(Range(ys) \cup {cur[1]}))

\* the axis-range padding between the loop and set_ylim
YLimits(mn, mx) ==
    LET a0 == IF mn = NoneY THEN 0 ELSE mn[1]
        b0 == IF mx = NoneY THEN 0 ELSE mx[1]
        y_range == b0 - a0
        a1 == a0 - Pad(y_range)
        b1 == b0 + Pad(y_range)
        a2 == IF a1 = b1 THEN a1 - Pad(a1) ELSE a1
        b2 == IF a1 = b1 THEN b1 + Pad(a2) ELSE b1   \* reads the updated min_y
        a3 == IF a2 = b2 THEN a2 - 5 * Scale ELSE a2
        b3 == IF a2 = b2 THEN b2 + 5 * Scale ELSE b2
    IN  <<a3, b3>>

DrawInit ==
    /\ showY0 \in BOOLEAN
    /\ showLegend \in BOOLEAN
    /\ hasTargets \in BOOLEAN
    /\ sources \in SeqsUpTo(ColorIDs, MaxSources)
    /\ targets \in SeqsUpTo(Targets, MaxTargets)
    /\ pc = "start"
    /\ idx = 0
    /\ min_y = NoneY
    /\ max_y = NoneY
    /\ lineData = <<>>
    /\ plots = <<>>
    /\ lastPlot = [marker |-> FALSE, n |-> 0]
    /\ seen = {}
    /\ ylim = <<>>
    /\ legend = [shown |-> FALSE, lines |-> <<>>]

\* parked values of the draw variables in the other specifications
DrawIdle ==
    /\ showY0 = FALSE
    /\ showLegend = FALSE
    /\ hasTargets = FALSE
    /\ sources = <<>>
    /\ targets = <<>>
    /\ pc = "idle"
    /\ idx = 0
    /\ min_y = NoneY
    /\ max_y = NoneY
    /\ lineData = <<>>
    /\ plots = <<>>
    /\ lastPlot = [marker |-> FALSE, n |-> 0]
    /\ seen = {}
    /\ ylim = <<>>
    /\ legend = [shown |-> FALSE, lines |-> <<>>]

drawInputs == <<showY0, showLegend, hasTargets, sources, targets>>

\* draw(): from subplot.clear() to the construction of iterList
DrawBegin ==
    /\ pc = "start"
    /\ pc' = "loop"
    /\ idx' = 0
    /\ lineData' = <<>>
    /\ plots' = <<>>
    /\ min_y' = IF showY0 THEN Some(0) ELSE NoneY
    /\ max_y' = IF showY0 THEN Some(0) ELSE NoneY
    /\ UNCHANGED <<lastPlot, seen, ylim, legend, drawInputs>>
    /\ UNCHANGED <<frameVars, implantVars>>

\* draw(): one iteration of "for source, target in iterList"
DrawPair ==
    /\ pc = "loop"
    /\ idx < Len(IterList)
    /\ LET p == IterList[idx + 1] IN
         IF ~StyleKnown(p)
         THEN \* KeyError: warning, continue
              /\ idx' = idx + 1
              /\ UNCHANGED <<pc, min_y, max_y, lineData, plots, lastPlot, seen>>
         ELSE \/ \* getPlotPoints (or anything else in the try block) raises:
                 \* warning, canvas.draw(), Refresh(), return
                 /\ pc' = "returned"
                 /\ UNCHANGED <<idx, min_y, max_y, lineData, plots, lastPlot, seen>>
              \/ \E ys \in YsChoices :
                   /\ min_y' = NewMin(min_y, ys)
                   /\ max_y' = NewMax(max_y, ys)
                   /\ plots' = Append(plots, [pair |-> p, color |-> ColorOf(p),
                                             linestyle |-> LineStyleOf(p)])
                   /\ lastPlot' = [marker |-> (Len(ys) = 1), n |-> Len(ys)]
                   /\ seen' = seen \cup Range(ys)
                   /\ lineData' = Append(lineData,
                                         [color |-> ColorOf(p),
                                          linestyle |-> LineStyleOf(p),
                                          label |-> <<p.src, p.tgt>>])
                   /\ idx' = idx + 1
                   /\ UNCHANGED pc
    /\ UNCHANGED <<ylim, legend, drawInputs>>
    /\ UNCHANGED <<frameVars, implantVars>>

\* draw(): after the loop - padding, set_ylim, legend, canvas.draw()
DrawFinish ==
    /\ pc = "loop"
    /\ idx = Len(IterList)
    /\ pc' = "done"
    /\ ylim' = YLimits(min_y, max_y)
    /\ legend' = [shown |-> (Len(lineData) > 0 /\ showLegend),
                  lines |-> IF Len(lineData) > 0 /\ showLegend
                            THEN lineData ELSE <<>>]
    /\ UNCHANGED <<idx, min_y, max_y, lineData, plots, lastPlot, seen, drawInputs>>
    /\ UNCHANGED <<frameVars, implantVars>>

\* ===========================================================================
\* ImplantView
\* ===========================================================================
PoolSize == 2       \* implant objects a list can hold

\* implant objects: fit f owns Pool(f); the other list owns OtherPool
Pool(f)   == ((f - 1) * PoolSize + 1)..(f * PoolSize)
OtherPool == (NumFits * PoolSize + 1)..((NumFits + 1) * PoolSize)

\* implant.slot
slot(i) == ((2 * i) % 3) + 1

DistinctSeqs(S) ==
    {s \in SeqsUpTo(S, Cardinality(S)) :
        \A j \in DOMAIN s, k \in DOMAIN s : j # k => s[j] # s[k]}

\* list references held by the view
NoList     == [kind |-> "None",  fit |-> None]
FitList(f) == [kind |-> "fit",   fit |-> f]
OtherList  == [kind |-> "other", fit |-> None]

Deref(ref) ==
    CASE ref.kind = "fit"   -> fitImplants[ref.fit]
      [] ref.kind = "other" -> otherImplants
      [] OTHER              -> <<>>

\* sFit.getFit(fitID): None for None
getFit(fitID) == IF fitID \in FitIDs THEN fitID ELSE None

\* fit.appliedImplants: fit.implants itself or the other list
appliedImplants(f) == IF useOther[f] THEN OtherList ELSE FitList(f)

\* list.index(x), 0-based; -1 stands for ValueError
IndexOf(s, x) ==
    IF \E k \in DOMAIN s : s[k] = x
    THEN (CHOOSE k \in DOMAIN s : s[k] = x /\ \A j \in 1..(k - 1) : s[j] # x) - 1
    ELSE -1

RemoveAt(s, k) == SubSeq(s, 1, k - 1) \o SubSeq(s, k + 1, Len(s))

\* Display.GetItemData(row): populate() numbers the rows 0, 1, 2, ...
GetItemData(row) == row

InsertBySlot(x, s) ==
    LET before == SelectSeq(s, LAMBDA y : slot(y) <= slot(x))
        after  == SelectSeq(s, LAMBDA y : slot(y) >  slot(x))
    IN  before \o <<x>> \o after

Unsorted(s) == s

RECURSIVE SortBySlot(_)
\* stuff.sort(key=lambda implant: implant.slot): stable, ascending
SortBySlot(s) ==
    IF s = <<>> THEN <<>>
    ELSE InsertBySlot(s[Len(s)], SortBySlot(SubSeq(s, 1, Len(s) - 1)))

Idle == posted = <<>> /\ ~menuPending

States == {"State", "Base Name"}      \* column hit: State or another one

\* The fits start without implants of their own (addItem fills them); the
\* last fit takes its applied implants from the other list, which holds
\* every implant of its pool, in any order.
ImplantInit ==
    /\ fitImplants = [f \in FitIDs |-> <<>>]
    /\ useOther = [f \in FitIDs |-> f = NumFits]
    /\ otherImplants \in {s \in DistinctSeqs(OtherPool) : Len(s) = PoolSize}
    /\ activeFit = None
    /\ posted = <<>>
    /\ lastFitId = None
    /\ original = NoList
    /\ implants = NoList
    /\ rows = <<>>
    /\ selected = -1
    /\ menuPending = FALSE
    /\ op = [name |-> "init"]

ImplantIdle ==
    /\ fitImplants = [f \in FitIDs |-> <<>>]
    /\ useOther = [f \in FitIDs |-> FALSE]
    /\ otherImplants = <<>>
    /\ activeFit = None
    /\ posted = <<>>
    /\ lastFitId = None
    /\ original = NoList
    /\ implants = NoList
    /\ rows = <<>>
    /\ selected = -1
    /\ menuPending = FALSE
    /\ op = [name |-> "init"]

\* the main frame changes the active fit (or another component reports a
\* change of it) and posts FitChanged(fitID=active fit)
ActiveFitChanged ==
    /\ Idle
    /\ \E f \in FitIDs \cup {None} :
         /\ activeFit' = f
         /\ posted' = Append(posted, f)
    /\ op' = [name |-> "activeFitChanged"]
    /\ UNCHANGED <<fitImplants, useOther, otherImplants, lastFitId, original,
                   implants, rows, selected, menuPending>>
    /\ UNCHANGED <<frameVars, drawVars>>

\* ImplantView.fitChanged
fitChanged ==
    /\ posted # <<>>
    /\ posted' = Tail(posted)
    /\ LET fitID == Head(posted) IN
       IF fitID = None /\ lastFitId # None
       THEN /\ rows' = <<>>                       \* DeleteAllItems()
            /\ selected' = -1
            /\ lastFitId' = None
            /\ op' = [name |-> "fitChanged", fitID |-> fitID, last |-> lastFitId,
                      cleared |-> TRUE, queried |-> FALSE, populated |-> FALSE,
                      before |-> <<>>, stuff |-> <<>>]
            /\ UNCHANGED <<fitImplants, otherImplants, original, implants>>
       ELSE LET fit    == getFit(fitID)
                ref    == IF fit # None THEN appliedImplants(fit) ELSE NoList
                before == Deref(ref)
                stuff  == SortBySlot(before)
            IN  /\ original' = IF fit # None THEN FitList(fit) ELSE NoList
                /\ implants' = ref
                \* the sort is in place: it reorders the list object itself
                /\ fitImplants' = IF ref.kind = "fit"
                                  THEN [fitImplants EXCEPT ![fit] = stuff]
                                  ELSE fitImplants
                /\ otherImplants' = IF ref.kind = "other" THEN stuff
                                    ELSE otherImplants
                /\ lastFitId' = fitID
                /\ rows' = stuff                   \* populate(), refresh()
                /\ selected' = IF fitID # lastFitId THEN -1   \* deselectItems()
                               ELSE IF selected >= Len(stuff) THEN -1
                               ELSE selected
                /\ op' = [name |-> "fitChanged", fitID |-> fitID, last |-> lastFitId,
                          cleared |-> FALSE, queried |-> TRUE, populated |-> TRUE,
                          before |-> before, stuff |-> stuff]
    /\ UNCHANGED <<useOther, activeFit, menuPending>>
    /\ UNCHANGED <<frameVars, drawVars>>

\* sFit.addImplant(fitID, itemID): appends the implant of that item to
\* fit.implants; False when there is no fit or the implant is already fitted
addImplantOk(fitID, itemID) ==
    /\ fitID \in FitIDs
    /\ IndexOf(fitImplants[fitID], (fitID - 1) * PoolSize + itemID) = -1

\* ImplantView.addItem
addItem ==
    /\ Idle
    /\ \E itemID \in 1..PoolSize :
         LET fitID == activeFit
             trigger == addImplantOk(fitID, itemID)
         IN  /\ fitImplants' =
                   IF trigger
                   THEN [fitImplants EXCEPT
                           ![fitID] = Append(@, (fitID - 1) * PoolSize + itemID)]
                   ELSE fitImplants
             /\ posted' = IF trigger THEN Append(posted, fitID) ELSE posted
             /\ op' = [name |-> "addItem", trigger |-> trigger]
    /\ UNCHANGED <<useOther, otherImplants, activeFit, lastFitId, original,
                   implants, rows, selected, menuPending>>
    /\ UNCHANGED <<frameVars, drawVars>>

\* ImplantView.removeImplant, called for the implant of list row `row`
\* (self.implants[self.GetItemData(row)]), with sFit.removeImplant(fitID,
\* position) deleting fit.implants[position]
removeImplant(via, row) ==
    LET live     == Deref(implants)
        k        == GetItemData(row) + 1
        fitID    == activeFit
        orig     == Deref(original)
        position == IF k \in DOMAIN live THEN IndexOf(orig, live[k]) ELSE -1
        ok       == /\ k \in DOMAIN live
                    /\ position # -1                  \* else ValueError
                    /\ fitID \in FitIDs
                    /\ position + 1 \in DOMAIN fitImplants[fitID]
    IN  /\ fitImplants' =
              IF ok THEN [fitImplants EXCEPT ![fitID] = RemoveAt(@, position + 1)]
              ELSE fitImplants
        /\ posted' = IF ok THEN Append(posted, fitID) ELSE posted
        /\ op' = [name |-> "remove", via |-> via, row |-> row,
                  shown |-> rows[row + 1],
                  removed |-> IF ok THEN {fitImplants[fitID][position + 1]} ELSE {},
                  posted |-> IF ok THEN <<fitID>> ELSE <<>>,
                  raised |-> ~ok]

\* ImplantView.removeItem (wx.EVT_LEFT_DCLICK)
removeItem ==
    /\ Idle
    /\ \E row \in -1..(Len(rows) - 1), col \in States :
         IF row # -1 /\ col # "State"
         THEN removeImplant("removeItem", row)
         ELSE /\ op' = [name |-> "removeItem", row |-> row, col |-> col]
              /\ UNCHANGED <<fitImplants, posted>>
    /\ UNCHANGED <<useOther, otherImplants, activeFit, lastFitId, original,
                   implants, rows, selected, menuPending>>
    /\ UNCHANGED <<frameVars, drawVars>>

\* ImplantView.kbEvent (wx.EVT_KEY_UP)
kbEvent ==
    /\ Idle
    /\ \E delete \in BOOLEAN :          \* WXK_DELETE / WXK_NUMPAD_DELETE or not
         LET row == selected IN         \* GetFirstSelected()
         IF delete /\ row # -1
         THEN removeImplant("kbEvent", row)
         ELSE /\ op' = [name |-> "kbEvent", row |-> row, delete |-> delete]
              /\ UNCHANGED <<fitImplants, posted>>
    /\ UNCHANGED <<useOther, otherImplants, activeFit, lastFitId, original,
                   implants, rows, selected, menuPending>>
    /\ UNCHANGED <<frameVars, drawVars>>

\* ImplantView.click (wx.EVT_LEFT_DOWN), with sFit.toggleImplant(fitID, i)
\* toggling fit.implants[i]; event.Skip() lets the list select the row
click ==
    /\ Idle
    /\ \E row \in -1..(Len(rows) - 1), col \in States :
         /\ selected' = IF row # -1 THEN row ELSE selected
         /\ IF row # -1 /\ col = "State"
            THEN LET fitID == activeFit
                     ok == /\ fitID \in FitIDs
                           /\ row + 1 \in DOMAIN fitImplants[fitID]
                 IN  /\ posted' = IF ok THEN Append(posted, fitID) ELSE posted
                     /\ op' = [name |-> "toggle", row |-> row,
                               shown |-> rows[row + 1],
                               toggled |-> IF ok THEN {fitImplants[fitID][row + 1]}
                                           ELSE {},
                               posted |-> IF ok THEN <<fitID>> ELSE <<>>,
                               raised |-> ~ok]
            ELSE /\ op' = [name |-> "click", row |-> row, col |-> col]
                 /\ UNCHANGED posted
    /\ UNCHANGED <<fitImplants, useOther, otherImplants, activeFit, lastFitId,
                   original, implants, rows, menuPending>>
    /\ UNCHANGED <<frameVars, drawVars>>

\* ImplantView.scheduleMenu (right mouse button)
scheduleMenu ==
    /\ Idle
    /\ \E col \in States :
         /\ menuPending' = (col # "State")           \* wx.CallAfter(spawnMenu)
         /\ op' = [name |-> "scheduleMenu", col |-> col]
    /\ UNCHANGED <<fitImplants, useOther, otherImplants, activeFit, posted,
                   lastFitId, original, implants, rows, selected>>
    /\ UNCHANGED <<frameVars, drawVars>>

\* ImplantView.spawnMenu
spawnMenu ==
    /\ menuPending
    /\ menuPending' = FALSE
    /\ LET sel_ == selected                          \* GetFirstSelected()
           fit  == getFit(activeFit)
           ok   == /\ sel_ # -1
                   /\ fit # None
                   /\ sel_ + 1 \in DOMAIN fitImplants[fit]
       IN  op' = [name |-> "spawnMenu", sel |-> sel_,
                  shown |-> IF sel_ # -1 THEN {rows[sel_ + 1]} ELSE {},
                  menu |-> IF ok THEN {fitImplants[fit][sel_ + 1]} ELSE {},
                  raised |-> (sel_ # -1 /\ ~ok)]
    /\ UNCHANGED <<fitImplants, useOther, otherImplants, activeFit, posted,
                   lastFitId, original, implants, rows, selected>>
    /\ UNCHANGED <<frameVars, drawVars>>

\* ===========================================================================
\* Specifications
\* ===========================================================================
Init == FrameInit /\ DrawIdle /\ ImplantIdle

Next ==
    \/ Open
    \/ OnClose
    \/ GraphFrame_kbEvent
    \/ NotifyFitRenamed
    \/ NotifyFitChanged
    \/ NotifyFitRemoved
    \/ NotifyProfileRenamed
    \/ NotifyProfileChanged
    \/ NotifyProfileRemoved
    \/ NotifyResistModeChanged
    \/ NotifyGraphOptionChanged
    \/ GraphSwitched

Spec == Init /\ [][Next]_vars

InitDraw == DrawInit /\ FrameIdle /\ ImplantIdle

NextDraw == DrawBegin \/ DrawPair \/ DrawFinish

SpecDraw == InitDraw /\ [][NextDraw]_vars

InitImplant == ImplantInit /\ FrameIdle /\ DrawIdle

NextImplant ==
    \/ ActiveFitChanged
    \/ fitChanged
    \/ addItem
    \/ removeItem
    \/ kbEvent
    \/ click
    \/ scheduleMenu
    \/ spawnMenu

SpecImplant == InitImplant /\ [][NextImplant]_vars

\* ===========================================================================
\* Properties
\* ===========================================================================
PanelCalls ==
    {"ctrlPanel.OnFitRenamed", "ctrlPanel.OnFitChanged", "ctrlPanel.OnFitRemoved",
     "ctrlPanel.OnProfileRenamed", "ctrlPanel.OnProfileChanged",
     "ctrlPanel.OnProfileRemoved", "ctrlPanel.OnResistModeChanged",
     "ctrlPanel.Freeze", "ctrlPanel.refreshAxeLabels", "ctrlPanel.refreshColumns",
     "ctrlPanel.Thaw", "ctrlPanel.updateControls"}

Redrawing ==
    {"FIT_RENAMED", "FIT_CHANGED", "FIT_REMOVED", "TARGET_PROFILE_RENAMED",
     "TARGET_PROFILE_CHANGED", "TARGET_PROFILE_REMOVED", "RESIST_MODE_CHANGED",
     "GRAPH_OPTION_CHANGED", "EVT_CHOICE"}

\* C1: while the frame is open, each subscribed notification and each graph
\* switch makes exactly one draw() call, after every control panel call made
\* for the event (of which there is at least one), and the event is skipped.
C1_OneDrawAfterPanelUpdate ==
    (last.ev \in Redrawing /\ last.inst # 0) =>
        LET draws == {k \in DOMAIN trace : trace[k].call = "draw"}
            panel == {k \in DOMAIN trace : trace[k].call \in PanelCalls}
        IN  /\ Cardinality(draws) = 1
            /\ panel # {}
            /\ \A k \in panel, d \in draws : k < d
            /\ \E k \in DOMAIN trace : trace[k].call = "Skip"
            /\ \A k \in DOMAIN trace : trace[k].inst = last.inst

C1_Witness ==
    /\ last.ev = "GRAPH_OPTION_CHANGED"
    /\ last.inst # 0
    /\ last.event.refreshColumns
    /\ \E k \in DOMAIN trace : trace[k].call = "draw"

\* C2: after fitChanged for an existing fit, the list handed to populate()
\* and refresh() is a permutation of the fit's applied implants, in
\* non-decreasing order of slot.
C2_PopulatedSortedPermutation ==
    (op.name = "fitChanged" /\ op.fitID # None) =>
        /\ op.populated
        /\ rows = op.stuff
        /\ Len(op.stuff) = Len(op.before)
        /\ \A x \in Range(op.before) \cup Range(op.stuff) :
               Cardinality({k \in DOMAIN op.stuff : op.stuff[k] = x})
                 = Cardinality({k \in DOMAIN op.before : op.before[k] = x})
        /\ \A j \in DOMAIN op.stuff, k \in DOMAIN op.stuff :
               j < k => slot(op.stuff[j]) <= slot(op.stuff[k])

C2_Witness ==
    /\ op.name = "fitChanged"
    /\ op.fitID # None
    /\ Len(op.before) >= 2
    /\ op.before # op.stuff

\* C3: a removal from the list removes exactly the implant displayed in the
\* row from the active fit and posts FitChanged for the active fit.
C3_RemovesDisplayedImplant ==
    op.name = "remove" =>
        /\ op.removed = {op.shown}
        /\ op.posted = <<activeFit>>

\* C4: a left click on the State column toggles exactly the implant
\* displayed in the row and posts FitChanged for the active fit.
C4_TogglesDisplayedImplant ==
    op.name = "toggle" =>
        /\ op.toggled = {op.shown}
        /\ op.posted = <<activeFit>>

\* C5: the context menu is built for exactly the implant displayed in the
\* selected row; no menu without a selected row.
C5_MenuForDisplayedImplant ==
    op.name = "spawnMenu" => op.menu = op.shown

\* C6: when draw() reaches set_ylim, bottom < top.
C6_BottomBelowTop ==
    pc = "done" => ylim[1] < ylim[2]

\* C7: when draw() reaches set_ylim, [bottom, top] contains every plotted y
\* value, contains 0 when showY0 is on, and is no narrower than the
\* observed minimum and maximum.
C7_RangeContainsValues ==
    pc = "done" =>
        /\ \A y \in seen : ylim[1] <= y /\ y <= ylim[2]
        /\ showY0 => (ylim[1] <= 0 /\ 0 <= ylim[2])
        /\ min_y # NoneY => (ylim[1] <= min_y[1] /\ max_y[1] <= ylim[2])

\* C8: fitChanged with fitID None clears the list, leaves lastFitId None and
\* returns without querying the fit service or repopulating.
C8_NoneFitClearsAndReturns ==
    (op.name = "fitChanged" /\ op.fitID = None) =>
        /\ op.cleared
        /\ lastFitId = None
        /\ ~op.queried
        /\ ~op.populated

AllIDsKnown(p) ==
    /\ sources[p.src] \in BASE_COLORS
    /\ p.tgt # None => /\ targets[p.tgt].lightnessID \in LIGHTNESSES
                       /\ targets[p.tgt].lineStyleID \in STYLES

\* C9: pairs with an unknown colorID, lightnessID or lineStyleID are skipped
\* and the loop goes on; the legend entries match the plotted curves one to
\* one and in order; the legend is shown exactly when showLegend is on and
\* a curve was plotted.
C9_LegendMatchesPlots ==
    /\ pc \in {"loop", "done"} =>
          /\ [k \in 1..Len(plots) |-> plots[k].pair]
                = SelectSeq(SubSeq(IterList, 1, idx), AllIDsKnown)
          /\ Len(lineData) = Len(plots)
          /\ \A k \in DOMAIN plots :
                /\ lineData[k].label = <<plots[k].pair.src, plots[k].pair.tgt>>
                /\ lineData[k].color = plots[k].color
                /\ lineData[k].linestyle = plots[k].linestyle
    /\ pc = "done" =>
          /\ idx = Len(IterList)
          /\ legend.shown <=> (showLegend /\ Len(plots) > 0)
          /\ legend.shown => legend.lines = lineData

C9_Witness ==
    /\ pc = "done"
    /\ legend.shown
    /\ \E j \in 1..Len(IterList), k \in 1..Len(IterList) :
          /\ j < k
          /\ ~AllIDsKnown(IterList[j])
          /\ AllIDsKnown(IterList[k])

\* C10: OnClose unbinds exactly what __init__ bound: the main frame's event
\* table holds the bindings of the open frame and nothing else, and no
\* draw() or clearCache() is ever called on a frame that is not open.
C10_UnbindMatchesBind ==
    /\ bound = (IF frame = 0 THEN {} ELSE Bindings(frame))
    /\ \A k \in DOMAIN trace :
          trace[k].call \in {"draw", "clearCache"} =>
              (frame # 0 /\ trace[k].inst = frame)

C10_Witness ==
    /\ frame = 0
    /\ nextId > 1
    /\ last.ev = "FIT_CHANGED"
    /\ Len(last.event.fitIDs) > 0
    /\ trace = <<>>

\* the (reason, extraData) pairs the claim expects for an event, in order
RECURSIVE PerFitID(_, _)
PerFitID(reason, ids) ==
    IF ids = <<>> THEN <<>>
    ELSE <<<<reason, Head(ids)>>>> \o PerFitID(reason, Tail(ids))

ExpectedClears(ev, event) ==
    CASE ev = "FIT_CHANGED"            -> PerFitID("fitChanged", event.fitIDs)
      [] ev = "FIT_REMOVED"            -> <<<<"fitRemoved", event.fitID>>>>
      [] ev = "TARGET_PROFILE_CHANGED" -> <<<<"profileChanged", event.profileID>>>>
      [] ev = "TARGET_PROFILE_REMOVED" -> <<<<"profileRemoved", event.profileID>>>>
      [] ev = "RESIST_MODE_CHANGED"    -> PerFitID("resistModeChanged", event.fitIDs)
      [] ev = "GRAPH_OPTION_CHANGED"   -> <<<<"optionChanged", None>>>>
      [] ev = "EVT_CHOICE"             -> <<<<"graphSwitched", None>>>>
      [] OTHER                         -> <<>>      \* the two rename events

\* C11: for each notification that changes plotted data the current view's
\* clearCache is called with the matching reason (once per fit ID, in order,
\* for the events carrying fitIDs) before draw() in the same handler; the
\* rename notifications redraw without any clearCache.
C11_ClearCacheBeforeDraw ==
    (last.ev \in Redrawing /\ last.inst # 0) =>
        LET clears == SelectSeq(trace, LAMBDA c : c.call = "clearCache")
        IN  /\ [k \in 1..Len(clears) |-> <<clears[k].reason, clears[k].extra>>]
                 = ExpectedClears(last.ev, last.event)
            /\ \A k \in DOMAIN clears :
                  clears[k].view = sel /\ clears[k].inst = frame
            /\ \E d \in DOMAIN trace :
                  /\ trace[d].call = "draw"
                  /\ \A k \in DOMAIN trace :
                        trace[k].call = "clearCache" => k < d

C11_Witness ==
    /\ last.ev = "RESIST_MODE_CHANGED"
    /\ last.inst # 0
    /\ Len(last.event.fitIDs) = 2
    /\ last.event.fitIDs[1] # last.event.fitIDs[2]
    /\ Len(SelectSeq(trace, LAMBDA c : c.call = "clearCache")) = 2
    /\ sel = 1
====
